---- MODULE Spec2Model ----
(***************************************************************************)
(* The custom feature source of node-feature-discovery                     *)
(* (source/custom/custom.go): the merge of the three configuration         *)
(* sources, the rule evaluator discoverFeature with its matchRules         *)
(* closure, and the aggregation loop of Discover.                          *)
(*                                                                         *)
(* Go values are written as follows.  A pointer is a sequence of length    *)
(* at most one (<<>> is nil, <<v>> points to v).  An error is a sequence   *)
(* too: <<>> is the nil error.  An interface{} value of the feature map    *)
(* is a pair <<dynamic type, value>>.  A rule is a record that carries     *)
(* the dynamic type of the pointer (kind) and what the host makes of it    *)
(* (out): "nil" is the typed nil pointer of an omitted slot, the other     *)
(* three are what Match() of that rule returns on this host.               *)
(***************************************************************************)
EXTENDS Integers, Sequences, FiniteSets, TLC

VARIABLES
    staticConfig,      \* what getStaticFeatureConfig() returns (built-in list)
    directoryConfig,   \* what getDirectoryFeatureConfig() returned in this pass
    config,            \* Source.config, a *config
    pc,                \* position of the caller: new, idle, loop, done, panic, fatal
    allFeatureConfig,  \* Discover's local slice
    idx,               \* position of Discover's range loop (1-based)
    features,          \* Discover's local map
    ret,               \* what Discover returned: <<>> or <<[features, err]>>
    evalLog,           \* history: every discoverFeature call of the pass, in order
    klog,              \* history: the klog.Errorf lines of the pass
    feature,           \* evaluator harness: the FeatureSpec handed to discoverFeature
    result,            \* evaluator harness: <<>> or <<what discoverFeature returned>>
    epc                \* evaluator harness: ready, returned

vars == <<staticConfig, directoryConfig, config, pc, allFeatureConfig, idx,
          features, ret, evalLog, klog, feature, result, epc>>

discoverVars == <<staticConfig, directoryConfig, config, pc, allFeatureConfig,
                  idx, features, ret, evalLog, klog>>

evalVars == <<feature, result, epc>>

-----------------------------------------------------------------------------
(* Bounds of the model.                                                    *)

\* most specifications in one merged sequence (static + user + directory)
MaxSpecs == 3

\* most rule-sets in the matchOn of the evaluator harness
MaxMatchOn == 2

\* most present rules over the whole matchOn of the evaluator harness
MaxRules == 3

-----------------------------------------------------------------------------
(* Data model.                                                             *)

NoErr == <<>>

NilPtr == <<>>

\* the six rule types of MatchRule, in the order of its fields
Kinds == {"PciID", "UsbID", "LoadedKMod", "CpuID", "Kconfig", "Nodename"}

\* what a present rule's Match() does on the host
PresentOuts == {"match", "nomatch", "error"}

Outs == {"nil"} \cup PresentOuts

Rule(kind, out) == [kind |-> kind, out |-> out]

\* type MatchRule struct: one optional rule per type
MatchRule(o) ==
    [PciID      |-> Rule("PciID", o["PciID"]),
     UsbID      |-> Rule("UsbID", o["UsbID"]),
     LoadedKMod |-> Rule("LoadedKMod", o["LoadedKMod"]),
     CpuID      |-> Rule("CpuID", o["CpuID"]),
     Kconfig    |-> Rule("Kconfig", o["Kconfig"]),
     Nodename   |-> Rule("Nodename", o["Nodename"])]

\* type FeatureSpec struct
FeatureSpec(name, value, matchOn) ==
    [Name |-> name, Value |-> value, MatchOn |-> matchOn]

-----------------------------------------------------------------------------
(* The rule capability (package rules): Match() of one rule.               *)

Match(rule) ==
    [match |-> rule.out = "match",
     err   |-> IF rule.out = "error" THEN <<"match failed", rule.kind>> ELSE NoErr]

-----------------------------------------------------------------------------
(* discoverFeature and its matchRules closure.                             *)
(* Both return the Go result (match, err) together with the Match() calls  *)
(* they made, in order; discoverFeature also returns the rule-sets it      *)
(* handed to matchRules.                                                   *)

\* reflect.ValueOf(rule).IsNil()
IsNil(rule) == rule.out = "nil"

\* mutant of allRules: the Nodename rule is left out of the slice
allRules_noNodename(matchRules) ==
    <<matchRules.PciID, matchRules.UsbID, matchRules.LoadedKMod,
      matchRules.CpuID, matchRules.Kconfig>>

\* mutant of allRules: CpuID is put before LoadedKMod
allRules_swapped(matchRules) ==
    <<matchRules.PciID, matchRules.UsbID, matchRules.CpuID,
      matchRules.LoadedKMod, matchRules.Kconfig, matchRules.Nodename>>

\* the allRules slice literal
allRules(matchRules) ==
    <<matchRules.PciID, matchRules.UsbID, matchRules.LoadedKMod,
      matchRules.CpuID, matchRules.Kconfig, matchRules.Nodename>>

RECURSIVE matchRulesFrom(_, _, _)
\* the loop of the matchRules closure, from position k on
matchRulesFrom(rules, k, calls) ==
    IF k > Len(rules)
    THEN [match |-> TRUE, err |-> NoErr, calls |-> calls]
    ELSE IF IsNil(rules[k])
    THEN matchRulesFrom(rules, k + 1, calls)
    ELSE LET m == Match(rules[k])
             c == Append(calls, rules[k].kind)
         IN  IF m.err # NoErr
             THEN [match |-> FALSE, err |-> m.err, calls |-> c]
             ELSE IF ~m.match
             THEN [match |-> FALSE, err |-> NoErr, calls |-> c]
             ELSE matchRulesFrom(rules, k + 1, c)

\* mutant of matchRules: a rule-set in which no rule was evaluated does not match
matchRules_needsRule(rules) ==
    LET r == matchRulesFrom(rules, 1, <<>>)
    IN  IF r.calls = <<>> THEN [r EXCEPT !.match = FALSE] ELSE r

\* the matchRules closure
matchRules(rules) == matchRulesFrom(rules, 1, <<>>)

\* the calls of one rule-set, tagged with the position of the rule-set
Tagged(i, kinds) == [j \in 1..Len(kinds) |-> <<i, kinds[j]>>]

RECURSIVE discoverFeatureFrom_errContinue(_, _, _, _)
\* mutant of discoverFeatureFrom: a rule-set that fails is treated as one that
\* does not match, and the next rule-set is tried
discoverFeatureFrom_errContinue(f, i, calls, visited) ==
    IF i > Len(f.MatchOn)
    THEN [match |-> FALSE, err |-> NoErr, calls |-> calls, visited |-> visited]
    ELSE LET r == matchRules(allRules(f.MatchOn[i]))
             c == calls \o Tagged(i, r.calls)
             v == Append(visited, i)
         IN  IF r.err = NoErr /\ r.match
             THEN [match |-> TRUE, err |-> NoErr, calls |-> c, visited |-> v]
             ELSE discoverFeatureFrom_errContinue(f, i + 1, c, v)

RECURSIVE discoverFeatureAll(_, _, _, _, _)
\* every rule-set is evaluated until one fails; found tells whether one matched
discoverFeatureAll(f, i, calls, visited, found) ==
    IF i > Len(f.MatchOn)
    THEN [match |-> found, err |-> NoErr, calls |-> calls, visited |-> visited]
    ELSE LET r == matchRules(allRules(f.MatchOn[i]))
             c == calls \o Tagged(i, r.calls)
             v == Append(visited, i)
         IN  IF r.err # NoErr
             THEN [match |-> FALSE, err |-> r.err, calls |-> c, visited |-> v]
             ELSE discoverFeatureAll(f, i + 1, c, v, found \/ r.match)

\* mutant of discoverFeatureFrom: a match does not end the loop
discoverFeatureFrom_noShortCircuit(f, i, calls, visited) ==
    discoverFeatureAll(f, i, calls, visited, FALSE)

RECURSIVE discoverFeatureFrom_exhaustedTrue(_, _, _, _)
\* mutant of discoverFeatureFrom: the return after the loop is "true, nil"
discoverFeatureFrom_exhaustedTrue(f, i, calls, visited) ==
    IF i > Len(f.MatchOn)
    THEN [match |-> TRUE, err |-> NoErr, calls |-> calls, visited |-> visited]
    ELSE LET r == matchRules(allRules(f.MatchOn[i]))
             c == calls \o Tagged(i, r.calls)
             v == Append(visited, i)
         IN  IF r.err # NoErr
             THEN [match |-> FALSE, err |-> r.err, calls |-> c, visited |-> v]
             ELSE IF r.match
             THEN [match |-> TRUE, err |-> NoErr, calls |-> c, visited |-> v]
             ELSE discoverFeatureFrom_exhaustedTrue(f, i + 1, c, v)

RECURSIVE discoverFeatureFrom(_, _, _, _)
\* the range loop of discoverFeature, from rule-set i on
discoverFeatureFrom(f, i, calls, visited) ==
    IF i > Len(f.MatchOn)
    THEN [match |-> FALSE, err |-> NoErr, calls |-> calls, visited |-> visited]
    ELSE LET r == matchRules(allRules(f.MatchOn[i]))
             c == calls \o Tagged(i, r.calls)
             v == Append(visited, i)
         IN  IF r.err # NoErr
             THEN [match |-> FALSE, err |-> r.err, calls |-> c, visited |-> v]
             ELSE IF r.match
             THEN [match |-> TRUE, err |-> NoErr, calls |-> c, visited |-> v]
             ELSE discoverFeatureFrom(f, i + 1, c, v)

discoverFeature(f) == discoverFeatureFrom(f, 1, <<>>, <<>>)

-----------------------------------------------------------------------------
(* Discover: the configuration sources and the feature map.                *)

\* getStaticFeatureConfig(): the built-in list, the same on every call
getStaticFeatureConfig == staticConfig

\* mutant of MergeConfig: the user configuration is put before the built-in list
MergeConfig_userFirst(c, d) == (c \o getStaticFeatureConfig) \o d

\* append(append(getStaticFeatureConfig(), *s.config...), getDirectoryFeatureConfig()...)
\* c is the dereferenced *s.config, d what getDirectoryFeatureConfig() returned
MergeConfig(c, d) == (getStaticFeatureConfig \o c) \o d

\* var value interface{} = true; if customFeature.Value != nil { value = *customFeature.Value }
FeatureValue(customFeature) ==
    IF customFeature.Value # NilPtr
    THEN <<"string", customFeature.Value[1]>>
    ELSE <<"bool", "true">>

\* mutant of MapPut: an entry that is already there is kept
MapPut_keepFirst(m, name, value) ==
    [n \in (DOMAIN m) \cup {name} |-> IF n \in DOMAIN m THEN m[n] ELSE value]

\* features[name] = value
MapPut(m, name, value) ==
    [n \in (DOMAIN m) \cup {name} |-> IF n = name THEN value ELSE m[n]]

\* mutant of FeaturesAfter: a specification that does not match takes its
\* name out of the map
FeaturesAfter_deleteOnNoMatch(m, customFeature, r) ==
    IF r.err # NoErr
    THEN m
    ELSE IF r.match
    THEN MapPut(m, customFeature.Name, FeatureValue(customFeature))
    ELSE [n \in (DOMAIN m) \ {customFeature.Name} |-> m[n]]

\* the body of Discover's range loop: the feature map after customFeature
\* whose discoverFeature call returned r
FeaturesAfter(m, customFeature, r) ==
    IF r.err # NoErr
    THEN m
    ELSE IF r.match
    THEN MapPut(m, customFeature.Name, FeatureValue(customFeature))
    ELSE m

\* klog.Errorf("failed to discover feature: %q: %s", ...) on the error branch
KlogAfter(log, customFeature, r) ==
    IF r.err # NoErr
    THEN Append(log, <<customFeature.Name, r.err>>)
    ELSE log

-----------------------------------------------------------------------------
(* Inputs.                                                                 *)

FeatureNames == {"a", "b"}

FeatureValues == {NilPtr, <<"x">>}

AllNil == [k \in Kinds |-> "nil"]

\* a rule-set with one present rule
OneRule(kind, out) == MatchRule([AllNil EXCEPT ![kind] = out])

\* the matchOn lists of the specifications Discover is run on: one that
\* matches on its second alternative, one that does not match, one that
\* fails on its second alternative (with a vacuous third one behind it)
MatchOnPool ==
    { <<OneRule("UsbID", "nomatch"), OneRule("PciID", "match")>>,
      <<OneRule("LoadedKMod", "nomatch")>>,
      <<OneRule("Nodename", "nomatch"), OneRule("Kconfig", "error"), MatchRule(AllNil)>> }

FeaturePool ==
    { FeatureSpec(n, v, m) : n \in FeatureNames, v \in FeatureValues, m \in MatchOnPool }

\* the lists of exactly n specifications
ConfigsOfLen(n) == [1..n -> FeaturePool]

-----------------------------------------------------------------------------
(* The discovery pass.                                                     *)

NoFeature == FeatureSpec("", NilPtr, <<>>)

Init ==
    /\ \E n \in 0..MaxSpecs : staticConfig \in ConfigsOfLen(n)
    /\ directoryConfig = <<>>
    /\ config = NilPtr
    /\ pc = "new"
    /\ allFeatureConfig = <<>>
    /\ idx = 0
    /\ features = <<>>
    /\ ret = <<>>
    /\ evalLog = <<>>
    /\ klog = <<>>
    /\ feature = NoFeature
    /\ result = <<>>
    /\ epc = "off"

\* SetConfig with a *config: the caller configures the new source
SetConfig ==
    /\ pc = "new"
    /\ \E n \in 0..(MaxSpecs - Len(staticConfig)) :
          \E c \in ConfigsOfLen(n) : config' = <<c>>
    /\ pc' = "idle"
    /\ UNCHANGED <<staticConfig, directoryConfig, allFeatureConfig, idx,
                   features, ret, evalLog, klog>>
    /\ UNCHANGED evalVars

\* SetConfig with a source.Config of another type: klog.Fatalf ends the process
SetConfigInvalid ==
    /\ pc = "new"
    /\ pc' = "fatal"
    /\ UNCHANGED <<staticConfig, directoryConfig, config, allFeatureConfig, idx,
                   features, ret, evalLog, klog>>
    /\ UNCHANGED evalVars

\* Discover on a Source whose config was never set: *s.config dereferences nil
DiscoverNilConfig ==
    /\ pc = "new"
    /\ config = NilPtr
    /\ pc' = "panic"
    /\ UNCHANGED <<staticConfig, directoryConfig, config, allFeatureConfig, idx,
                   features, ret, evalLog, klog>>
    /\ UNCHANGED evalVars

\* Discover up to its range loop: the empty map and the merged slice
DiscoverBegin ==
    /\ pc = "idle"
    /\ config # NilPtr
    /\ \E n \in 0..(MaxSpecs - Len(staticConfig) - Len(config[1])) :
          \E d \in ConfigsOfLen(n) :
             /\ directoryConfig' = d
             /\ allFeatureConfig' = MergeConfig(config[1], d)
    /\ features' = <<>>
    /\ idx' = 1
    /\ pc' = "loop"
    /\ UNCHANGED <<staticConfig, config, ret, evalLog, klog>>
    /\ UNCHANGED evalVars

\* mutant of DiscoverIterate: the error of a specification ends the pass
DiscoverIterate_abortOnError ==
    /\ pc = "loop"
    /\ idx <= Len(allFeatureConfig)
    /\ LET customFeature == allFeatureConfig[idx]
           r == discoverFeature(customFeature)
       IN  /\ features' = FeaturesAfter(features, customFeature, r)
           /\ klog' = KlogAfter(klog, customFeature, r)
           /\ evalLog' = Append(evalLog, [spec |-> customFeature,
                                          match |-> r.match, err |-> r.err])
           /\ pc' = IF r.err # NoErr THEN "done" ELSE pc
           /\ ret' = IF r.err # NoErr
                     THEN << [features |-> <<>>, err |-> r.err] >>
                     ELSE ret
    /\ idx' = idx + 1
    /\ UNCHANGED <<staticConfig, directoryConfig, config, allFeatureConfig>>
    /\ UNCHANGED evalVars

\* one iteration of the range loop
DiscoverIterate ==
    /\ pc = "loop"
    /\ idx <= Len(allFeatureConfig)
    /\ LET customFeature == allFeatureConfig[idx]
           r == discoverFeature(customFeature)
       IN  /\ features' = FeaturesAfter(features, customFeature, r)
           /\ klog' = KlogAfter(klog, customFeature, r)
           /\ evalLog' = Append(evalLog, [spec |-> customFeature,
                                          match |-> r.match, err |-> r.err])
    /\ idx' = idx + 1
    /\ UNCHANGED <<staticConfig, directoryConfig, config, pc, allFeatureConfig, ret>>
    /\ UNCHANGED evalVars

\* return features, nil
DiscoverReturn ==
    /\ pc = "loop"
    /\ idx > Len(allFeatureConfig)
    /\ ret' = << [features |-> features, err |-> NoErr] >>
    /\ pc' = "done"
    /\ UNCHANGED <<staticConfig, directoryConfig, config, allFeatureConfig, idx,
                   features, evalLog, klog>>
    /\ UNCHANGED evalVars

Next ==
    \/ SetConfig
    \/ SetConfigInvalid
    \/ DiscoverNilConfig
    \/ DiscoverBegin
    \/ DiscoverIterate
    \/ DiscoverReturn

Spec == Init /\ [][Next]_vars

-----------------------------------------------------------------------------
(* The evaluator on its own: discoverFeature applied to one specification. *)

\* the rule slots of the first n rule-sets of a matchOn list
Positions(n) == (1..n) \X Kinds

\* the matchOn list of n rule-sets whose present rules are at p, with outcomes o
MatchOnOf(n, p, o) ==
    [i \in 1..n |->
        MatchRule([k \in Kinds |-> IF <<i, k>> \in p THEN o[<<i, k>>] ELSE "nil"])]

\* the sets of at most MaxRules rule slots of the first n rule-sets
PresentSets(n) == { q \in SUBSET Positions(n) : Cardinality(q) <= MaxRules }

\* the outcomes of one rule-set: each of the six slots nil, matching, not matching or failing
RuleSetOuts == [Kinds -> Outs]

\* the specification is either one rule-set of any kind, or a matchOn list of
\* at most MaxMatchOn rule-sets with at most MaxRules present rules
EvalInit ==
    /\ \/ \E o \in RuleSetOuts : feature = FeatureSpec("a", NilPtr, <<MatchRule(o)>>)
       \/ \E n \in 0..MaxMatchOn : \E p \in PresentSets(n) : \E o \in [p -> PresentOuts] :
             feature = FeatureSpec("a", NilPtr, MatchOnOf(n, p, o))
    /\ result = <<>>
    /\ epc = "ready"
    /\ staticConfig = <<>>
    /\ directoryConfig = <<>>
    /\ config = NilPtr
    /\ pc = "off"
    /\ allFeatureConfig = <<>>
    /\ idx = 0
    /\ features = <<>>
    /\ ret = <<>>
    /\ evalLog = <<>>
    /\ klog = <<>>

\* one call of discoverFeature
Evaluate ==
    /\ epc = "ready"
    /\ result' = <<discoverFeature(feature)>>
    /\ epc' = "returned"
    /\ UNCHANGED feature
    /\ UNCHANGED discoverVars

EvalNext == Evaluate

SpecEval == EvalInit /\ [][EvalNext]_vars

-----------------------------------------------------------------------------
(* What the specification says of a matchOn list, stated on the list       *)
(* itself: mo is the list, i the position of one of its rule-sets.         *)

\* the slots in the order they are to be evaluated in
SlotOrder == <<"PciID", "UsbID", "LoadedKMod", "CpuID", "Kconfig", "Nodename">>

SlotIndex(kind) == CHOOSE n \in DOMAIN SlotOrder : SlotOrder[n] = kind

OutAt(mo, i, n) == mo[i][SlotOrder[n]].out

\* every present slot of rule-set i matches
AllPresentMatch(mo, i) ==
    \A n \in DOMAIN SlotOrder : OutAt(mo, i, n) \in {"nil", "match"}

\* no slot of rule-set i is present
AllAbsent(mo, i) ==
    \A n \in DOMAIN SlotOrder : OutAt(mo, i, n) = "nil"

\* slot n of rule-set i is present and every present slot before it matches
FirstStop(mo, i, n) ==
    /\ OutAt(mo, i, n) \in {"nomatch", "error"}
    /\ \A m \in 1..(n - 1) : OutAt(mo, i, m) \in {"nil", "match"}

\* rule-set i ends on a slot that does not match
FailsQuietly(mo, i) ==
    \E n \in DOMAIN SlotOrder : FirstStop(mo, i, n) /\ OutAt(mo, i, n) = "nomatch"

\* rule-set i ends on a slot that fails
FailsWithError(mo, i) ==
    \E n \in DOMAIN SlotOrder : FirstStop(mo, i, n) /\ OutAt(mo, i, n) = "error"

\* rule-set i is reached: no rule-set before it matched or failed with an error
Reached(mo, i) == \A j \in 1..(i - 1) : FailsQuietly(mo, j)

\* the slots of rule-set i that are to be evaluated, as positions of SlotOrder
SlotsToEvaluate(mo, i) ==
    { n \in DOMAIN SlotOrder :
        /\ OutAt(mo, i, n) # "nil"
        /\ \A m \in 1..(n - 1) : OutAt(mo, i, m) \in {"nil", "match"} }

\* the specification with this matchOn list matches
SpecMatches(mo) == \E i \in DOMAIN mo : Reached(mo, i) /\ AllPresentMatch(mo, i)

\* the specification with this matchOn list fails with an error
SpecErrors(mo) == \E i \in DOMAIN mo : Reached(mo, i) /\ FailsWithError(mo, i)

\* the Match() calls made on rule-set i, in the order they were made
CallsOn(r, i) == SelectSeq(r.calls, LAMBDA c : c[1] = i)

\* the merged sequence the specification prescribes
Prescribed == (staticConfig \o config[1]) \o directoryConfig

\* the specifications handed to discoverFeature so far, in order
Evaluated == [j \in DOMAIN evalLog |-> evalLog[j].spec]

\* the value the specification prescribes for a matching specification
PrescribedValue(f) ==
    IF f.Value = <<>> THEN <<"bool", "true">> ELSE <<"string", f.Value[1]>>

-----------------------------------------------------------------------------
(* The evaluator's claims, checked under SpecEval.                         *)

\* C1. Fail-fast on error: when the rule-set being evaluated has a present
\* rule that fails with an error, discoverFeature returns that rule's error
\* with matched=false, that failing call is the last call made, and no rule
\* of a later rule-set is evaluated and no later rule-set is tried.
C1_FailFast ==
    epc = "returned" =>
        LET r == result[1]
            mo == feature.MatchOn
        IN  \A i \in DOMAIN mo :
                (Reached(mo, i) /\ FailsWithError(mo, i)) =>
                    /\ r.match = FALSE
                    /\ \E n \in DOMAIN SlotOrder :
                          /\ FirstStop(mo, i, n)
                          /\ r.err = <<"match failed", SlotOrder[n]>>
                          /\ r.calls # <<>>
                          /\ r.calls[Len(r.calls)] = <<i, SlotOrder[n]>>
                    /\ \A c \in DOMAIN r.calls : r.calls[c][1] <= i
                    /\ \A v \in DOMAIN r.visited : r.visited[v] <= i

\* a first rule-set that fails in front of a second one that would have matched
C1_Witness ==
    /\ epc = "returned"
    /\ Len(feature.MatchOn) = 2
    /\ FailsWithError(feature.MatchOn, 1)
    /\ AllPresentMatch(feature.MatchOn, 2)
    /\ ~AllAbsent(feature.MatchOn, 2)
    /\ result[1].err # NoErr

\* C2. OR short-circuit: the rule-sets are tried in matchOn order, and as
\* soon as one succeeds discoverFeature returns matched=true with no error;
\* no later rule-set is tried and no rule of a later rule-set is evaluated.
C2_ShortCircuit ==
    epc = "returned" =>
        LET r == result[1]
            mo == feature.MatchOn
        IN  /\ \A v \in DOMAIN r.visited : r.visited[v] = v
            /\ \A a, b \in DOMAIN r.calls : a < b => r.calls[a][1] <= r.calls[b][1]
            /\ \A i \in DOMAIN mo :
                  (Reached(mo, i) /\ AllPresentMatch(mo, i)) =>
                      /\ r.match = TRUE
                      /\ r.err = NoErr
                      /\ Len(r.visited) = i
                      /\ \A c \in DOMAIN r.calls : r.calls[c][1] <= i

\* a first rule-set that matches in front of a second one that would fail
C2_Witness ==
    /\ epc = "returned"
    /\ Len(feature.MatchOn) = 2
    /\ AllPresentMatch(feature.MatchOn, 1)
    /\ ~AllAbsent(feature.MatchOn, 1)
    /\ FailsWithError(feature.MatchOn, 2)
    /\ result[1].match = TRUE

\* C3. AND correctness: a rule-set that was tried matched (it is the last one
\* tried and the result is matched=true) if and only if every present slot
\* of it matches; one present slot that does not match, or fails, makes it
\* not-matched whatever the other slots are.
C3_AndCorrectness ==
    epc = "returned" =>
        LET r == result[1]
            mo == feature.MatchOn
        IN  \A v \in DOMAIN r.visited :
                (v = Len(r.visited) /\ r.match) <=> AllPresentMatch(mo, r.visited[v])

\* one rule-set, six present slots, five that match and one that does not
C3_Witness ==
    /\ epc = "returned"
    /\ Len(feature.MatchOn) = 1
    /\ \A n \in DOMAIN SlotOrder : OutAt(feature.MatchOn, 1, n) \in {"match", "nomatch"}
    /\ Cardinality({ n \in DOMAIN SlotOrder : OutAt(feature.MatchOn, 1, n) = "nomatch" }) = 1
    /\ result[1].match = FALSE
    /\ result[1].err = NoErr

\* C7. Vacuous match: a rule-set with all six slots absent that is reached
\* matches without any rule of it being evaluated: the result is
\* matched=true with no error, and it is the last rule-set tried.
C7_VacuousMatch ==
    epc = "returned" =>
        LET r == result[1]
            mo == feature.MatchOn
        IN  \A i \in DOMAIN mo :
                (Reached(mo, i) /\ AllAbsent(mo, i)) =>
                    /\ r.match = TRUE
                    /\ r.err = NoErr
                    /\ CallsOn(r, i) = <<>>
                    /\ r.visited # <<>>
                    /\ r.visited[Len(r.visited)] = i

\* an all-absent rule-set behind a rule-set that does not match
C7_Witness ==
    /\ epc = "returned"
    /\ Len(feature.MatchOn) = 2
    /\ FailsQuietly(feature.MatchOn, 1)
    /\ AllAbsent(feature.MatchOn, 2)
    /\ result[1].match = TRUE

\* C8. Return contract: every call ends in exactly one of matched=true with
\* no error, matched=false with no error, or an error; matched=true never
\* comes with an error; and when every rule-set of matchOn (none, for an
\* empty matchOn) ends on a non-matching slot, the result is matched=false
\* with no error.
C8_ReturnContract ==
    epc = "returned" =>
        LET r == result[1]
            mo == feature.MatchOn
            outcomes == { o \in {"matched", "notmatched", "error"} :
                            \/ o = "matched" /\ r.match = TRUE /\ r.err = NoErr
                            \/ o = "notmatched" /\ r.match = FALSE /\ r.err = NoErr
                            \/ o = "error" /\ r.err # NoErr }
        IN  /\ Cardinality(outcomes) = 1
            /\ ~(r.match = TRUE /\ r.err # NoErr)
            /\ (\A i \in DOMAIN mo : FailsQuietly(mo, i)) =>
                  (r.match = FALSE /\ r.err = NoErr)

\* two rule-sets that both end on a non-matching slot
C8_Witness ==
    /\ epc = "returned"
    /\ Len(feature.MatchOn) = 2
    /\ FailsQuietly(feature.MatchOn, 1)
    /\ FailsQuietly(feature.MatchOn, 2)
    /\ result[1].match = FALSE
    /\ result[1].err = NoErr

\* C9. Slot order: within a rule-set that is tried, the Match() calls are
\* the present slots in the order PciID, UsbID, LoadedKMod, CpuID, Kconfig,
\* Nodename, each at most once, up to and including the first one that does
\* not match or fails; a rule-set that is not tried gets no call; and a
\* rule-set that ends on a non-matching slot gives no error: the next
\* rule-set is tried, or, after the last one, the result is not-matched.
C9_SlotOrder ==
    epc = "returned" =>
        LET r == result[1]
            mo == feature.MatchOn
        IN  /\ \A c \in DOMAIN r.calls :
                  \E v \in DOMAIN r.visited : r.visited[v] = r.calls[c][1]
            /\ \A v \in DOMAIN r.visited :
                  LET cs == CallsOn(r, r.visited[v])
                      todo == SlotsToEvaluate(mo, r.visited[v])
                  IN  /\ Len(cs) = Cardinality(todo)
                      /\ \A a \in DOMAIN cs : SlotIndex(cs[a][2]) \in todo
                      /\ \A a, b \in DOMAIN cs :
                            a < b => SlotIndex(cs[a][2]) < SlotIndex(cs[b][2])
            /\ \A i \in DOMAIN mo :
                  (Reached(mo, i) /\ FailsQuietly(mo, i)) =>
                      IF i < Len(mo)
                      THEN \E v \in DOMAIN r.visited : r.visited[v] = i + 1
                      ELSE r.match = FALSE /\ r.err = NoErr

\* a rule-set whose failing slot comes after its non-matching slot, and the
\* rule-set behind it is tried
C9_Witness ==
    /\ epc = "returned"
    /\ Len(feature.MatchOn) = 2
    /\ \E n, m \in DOMAIN SlotOrder :
          /\ n < m
          /\ FirstStop(feature.MatchOn, 1, n)
          /\ OutAt(feature.MatchOn, 1, n) = "nomatch"
          /\ OutAt(feature.MatchOn, 1, m) = "error"
    /\ ~AllAbsent(feature.MatchOn, 2)
    /\ \E c \in DOMAIN result[1].calls : result[1].calls[c][1] = 2
    /\ result[1].err = NoErr

-----------------------------------------------------------------------------
(* Discover's claims, checked under Spec.                                  *)

\* C4. Error containment: Discover returns a map and a nil error, having
\* handed every specification of the merged sequence to discoverFeature; a
\* specification that matches has its name in the map whatever the
\* specifications before it did, and every specification that fails is
\* logged and skipped.
C4_ErrorContainment ==
    pc = "done" =>
        /\ ret # <<>>
        /\ ret[1].err = NoErr
        /\ Len(evalLog) = Len(Prescribed)
        /\ \A j \in DOMAIN Prescribed :
              SpecMatches(Prescribed[j].MatchOn) =>
                  Prescribed[j].Name \in DOMAIN ret[1].features
        /\ Len(klog) = Cardinality({ j \in DOMAIN Prescribed :
                                        SpecErrors(Prescribed[j].MatchOn) })

\* a failing specification in front of a matching one of another name
C4_Witness ==
    /\ pc = "done"
    /\ Len(Prescribed) >= 2
    /\ SpecErrors(Prescribed[1].MatchOn)
    /\ SpecMatches(Prescribed[2].MatchOn)
    /\ Prescribed[1].Name # Prescribed[2].Name
    /\ Prescribed[2].Name \in DOMAIN ret[1].features
    /\ Prescribed[1].Name \notin DOMAIN ret[1].features

\* C5. Last match wins: in the map Discover returns, the value under a name
\* is the one of the last specification of the merged sequence that has the
\* name and matches: its value string if it has one, boolean true otherwise.
C5_LastMatchWins ==
    pc = "done" =>
        \A name \in DOMAIN ret[1].features :
            LET matching == { j \in DOMAIN Prescribed :
                                /\ Prescribed[j].Name = name
                                /\ SpecMatches(Prescribed[j].MatchOn) }
            IN  /\ matching # {}
                /\ LET last == CHOOSE j \in matching : \A k \in matching : k <= j
                   IN  ret[1].features[name] = PrescribedValue(Prescribed[last])

\* two matching specifications of one name and different values
C5_Witness ==
    /\ pc = "done"
    /\ \E j, k \in DOMAIN Prescribed :
          /\ j < k
          /\ Prescribed[j].Name = Prescribed[k].Name
          /\ Prescribed[j].Value # Prescribed[k].Value
          /\ SpecMatches(Prescribed[j].MatchOn)
          /\ SpecMatches(Prescribed[k].MatchOn)
          /\ \A l \in DOMAIN Prescribed : l > k => Prescribed[l].Name # Prescribed[k].Name
          /\ ret[1].features[Prescribed[k].Name] = PrescribedValue(Prescribed[k])

\* C6. Merge order: the specifications handed to discoverFeature are, in
\* order, the built-in list, then the user configuration, then the
\* directory configuration: at every point of the loop they are the first
\* idx-1 of that sequence, and at the return they are all of it.
C6_MergeOrder ==
    pc \in {"loop", "done"} =>
        /\ Len(Evaluated) = idx - 1
        /\ Len(Evaluated) <= Len(Prescribed)
        /\ Evaluated = SubSeq(Prescribed, 1, Len(Evaluated))
        /\ pc = "done" => Evaluated = Prescribed

\* one specification from each source, no two the same
C6_Witness ==
    /\ pc = "done"
    /\ Len(staticConfig) = 1
    /\ Len(config[1]) = 1
    /\ Len(directoryConfig) = 1
    /\ staticConfig[1] # config[1][1]
    /\ config[1][1] # directoryConfig[1]
    /\ staticConfig[1] # directoryConfig[1]
    /\ Evaluated = <<staticConfig[1], config[1][1], directoryConfig[1]>>

\* C10. Frame of a non-contributing specification: an iteration of the loop
\* over a specification that does not match, or fails, leaves the feature
\* map as it was; and a name is in the returned map if and only if some
\* specification of that name matches.
C10_Frame ==
    /\ [][ ( /\ pc = "loop"
             /\ idx' = idx + 1
             /\ ~SpecMatches(allFeatureConfig[idx].MatchOn) )
           => features' = features ]_vars
    /\ [](pc = "done" =>
            \A name \in FeatureNames :
                name \in DOMAIN ret[1].features
                    <=> \E j \in DOMAIN Prescribed :
                            /\ Prescribed[j].Name = name
                            /\ SpecMatches(Prescribed[j].MatchOn))

\* a specification that did not match or failed, processed when its name was
\* already in the map, and the name is still there
C10_Witness ==
    /\ pc \in {"loop", "done"}
    /\ evalLog # <<>>
    /\ evalLog[Len(evalLog)].match = FALSE
    /\ \E j \in 1..(Len(evalLog) - 1) :
          /\ evalLog[j].spec.Name = evalLog[Len(evalLog)].spec.Name
          /\ evalLog[j].match = TRUE
    /\ evalLog[Len(evalLog)].spec.Name \in DOMAIN features

====
